---- MODULE Spec2Model ----
(***************************************************************************)
(* A model of aijson_ml's LLM invocation core (src/aijson_ml/actions/llm.py):*)
(* Prompt.run with its retry loop, the streaming accumulator               *)
(* iterate_invoke_llm, the three provider adapters, the structured output  *)
(* finalizer parse_structured_response and the credential context          *)
(* PromptEnvContext.                                                       *)
(*                                                                         *)
(* Text is a sequence of one-character strings.  Python's None is the     *)
(* record None.  A decoded JSON value is a record [k |-> kind, v |-> ...].  *)
(***************************************************************************)
EXTENDS Integers, Sequences, FiniteSets, TLC

\* ------------------------------------------------------------------ text

Q == "\""

None == [k |-> "none", v |-> <<>>]

\* Python str.startswith
StartsWith(s, p) ==
    /\ Len(p) <= Len(s)
    /\ \A i \in 1..Len(p) : s[i] = p[i]

\* Python `p in s` for strings
Contains(s, p) ==
    \E o \in 0..(Len(s) - Len(p)) : \A i \in 1..Len(p) : s[o + i] = p[i]

\* First index of character c in s, 0 when absent (str.find + 1)
RECURSIVE FindFrom(_, _, _)
FindFrom(s, c, i) ==
    IF i > Len(s) THEN 0
    ELSE IF s[i] = c THEN i
    ELSE FindFrom(s, c, i + 1)

\* ------------------------------------------------------------------ json.loads
\* The decoder covers the JSON the model's texts use: objects, arrays,
\* strings without escapes, non-negative integers, null, true, false, and
\* the space as whitespace.

Digits == {"0", "1", "2", "3", "4", "5", "6", "7", "8", "9"}

RECURSIVE SkipWs(_, _)
SkipWs(s, i) ==
    IF i <= Len(s) /\ s[i] = " " THEN SkipWs(s, i + 1) ELSE i

\* i is the index after an opening quote; the index after the closing quote, or 0
RECURSIVE StringEnd(_, _)
StringEnd(s, i) ==
    IF i > Len(s) THEN 0
    ELSE IF s[i] = Q THEN i + 1
    ELSE StringEnd(s, i + 1)

RECURSIVE DigitsEnd(_, _)
DigitsEnd(s, i) ==
    IF i <= Len(s) /\ s[i] \in Digits THEN DigitsEnd(s, i + 1) ELSE i

\* a JSON number: 0, or a non-zero digit followed by digits
NumberEnd(s, i) ==
    IF s[i] = "0" THEN i + 1 ELSE DigitsEnd(s, i)

LiteralEnd(s, i, lit) ==
    IF /\ i + Len(lit) - 1 <= Len(s)
       /\ \A n \in 1..Len(lit) : s[i + n - 1] = lit[n]
    THEN i + Len(lit)
    ELSE 0

RECURSIVE ValueEnd(_, _)
RECURSIVE ObjMembers(_, _, _)
RECURSIVE ArrElements(_, _, _)

\* A scan of members or elements: end is the index after the closing bracket
\* (0: not well formed), mem the texts read.
ScanFail == [end |-> 0, mem |-> <<>>]

\* n: the first non-space after a member's value
ObjAfterValue(s, n, acc) ==
    IF n > Len(s) THEN ScanFail
    ELSE IF s[n] = "}" THEN [end |-> n + 1, mem |-> acc]
    ELSE IF s[n] = "," /\ SkipWs(s, n + 1) <= Len(s) /\ s[SkipWs(s, n + 1)] = Q
         THEN ObjMembers(s, n + 1, acc)
    ELSE ScanFail

\* the key is s[j+1 .. ke-2], the value s[vs .. ve-1]
ObjValue(s, j, ke, vs, ve, acc) ==
    IF ve = 0 THEN ScanFail
    ELSE ObjAfterValue(s, SkipWs(s, ve),
                       Append(acc, <<SubSeq(s, j + 1, ke - 2), SubSeq(s, vs, ve - 1)>>))

ObjValueAt(s, j, ke, vs, acc) == ObjValue(s, j, ke, vs, ValueEnd(s, vs), acc)

\* c: the first non-space after the key
ObjColon(s, j, ke, c, acc) ==
    IF c > Len(s) THEN ScanFail
    ELSE IF s[c] # ":" THEN ScanFail
    ELSE ObjValueAt(s, j, ke, SkipWs(s, c + 1), acc)

ObjKey(s, j, ke, acc) ==
    IF ke = 0 THEN ScanFail ELSE ObjColon(s, j, ke, SkipWs(s, ke), acc)

\* j: the first non-space where a member or "}" is expected
ObjMembersAt(s, j, acc) ==
    IF j > Len(s) THEN ScanFail
    ELSE IF s[j] = "}" /\ acc = <<>> THEN [end |-> j + 1, mem |-> acc]
    ELSE IF s[j] # Q THEN ScanFail
    ELSE ObjKey(s, j, StringEnd(s, j + 1), acc)

\* The members of an object whose "{" is before index i, as <<key, text>> pairs
ObjMembers(s, i, acc) == ObjMembersAt(s, SkipWs(s, i), acc)

\* n: the first non-space after an element
ArrAfterValue(s, n, acc) ==
    IF n > Len(s) THEN ScanFail
    ELSE IF s[n] = "]" THEN [end |-> n + 1, mem |-> acc]
    ELSE IF s[n] = "," /\ SkipWs(s, n + 1) <= Len(s) /\ s[SkipWs(s, n + 1)] # "]"
         THEN ArrElements(s, n + 1, acc)
    ELSE ScanFail

ArrValue(s, j, ve, acc) ==
    IF ve = 0 THEN ScanFail
    ELSE ArrAfterValue(s, SkipWs(s, ve), Append(acc, SubSeq(s, j, ve - 1)))

ArrElementsAt(s, j, acc) ==
    IF j > Len(s) THEN ScanFail
    ELSE IF s[j] = "]" /\ acc = <<>> THEN [end |-> j + 1, mem |-> acc]
    ELSE ArrValue(s, j, ValueEnd(s, j), acc)

\* The elements of an array whose "[" is before index i, as texts
ArrElements(s, i, acc) == ArrElementsAt(s, SkipWs(s, i), acc)

\* The index after the JSON value that starts at i (no whitespace at i), or 0.
ValueEnd(s, i) ==
    IF i > Len(s) THEN 0
    ELSE IF s[i] = "{" THEN ObjMembers(s, i + 1, <<>>).end
    ELSE IF s[i] = "[" THEN ArrElements(s, i + 1, <<>>).end
    ELSE IF s[i] = Q THEN StringEnd(s, i + 1)
    ELSE IF s[i] \in Digits THEN NumberEnd(s, i)
    ELSE IF s[i] = "n" THEN LiteralEnd(s, i, <<"n", "u", "l", "l">>)
    ELSE IF s[i] = "t" THEN LiteralEnd(s, i, <<"t", "r", "u", "e">>)
    ELSE IF s[i] = "f" THEN LiteralEnd(s, i, <<"f", "a", "l", "s", "e">>)
    ELSE 0

\* dict with one more key/value pair, the pair overriding an equal key
DictPut(d, key, val) ==
    [x \in (DOMAIN d) \cup {key} |-> IF x = key THEN val ELSE d[x]]

\* dict built from key/value pairs in order: a later pair overrides an equal key
RECURSIVE DictOf(_)
DictOf(pairs) ==
    IF pairs = <<>> THEN <<>>
    ELSE DictPut(DictOf(SubSeq(pairs, 1, Len(pairs) - 1)),
                 pairs[Len(pairs)][1], pairs[Len(pairs)][2])

JSONDecodeError == [k |-> "err", v |-> <<>>]

\* the value of a well-formed JSON text t without surrounding whitespace
JsonValue(t) ==
    IF t[1] = "{" THEN [k |-> "obj", v |-> DictOf(ObjMembers(t, 2, <<>>).mem)]
    ELSE IF t[1] = "[" THEN [k |-> "list", v |-> ArrElements(t, 2, <<>>).mem]
    ELSE IF t[1] = Q THEN [k |-> "str", v |-> SubSeq(t, 2, Len(t) - 1)]
    ELSE IF t[1] \in Digits THEN [k |-> "num", v |-> t]
    ELSE IF t[1] = "n" THEN None
    ELSE [k |-> "bool", v |-> t]

\* i: the first non-space of s; e: the index after the value that starts there
JsonLoadsAt(s, i, e) ==
    IF e = 0 THEN JSONDecodeError
    ELSE IF SkipWs(s, e) # Len(s) + 1 THEN JSONDecodeError
    ELSE JsonValue(SubSeq(s, i, e - 1))

\* json.loads(s).  An object decodes to [k |-> "obj", v |-> key -> text of the
\* member's value]; a nested value is decoded by JsonLoads of its text.
JsonLoads(s) == JsonLoadsAt(s, SkipWs(s, 1), ValueEnd(s, SkipWs(s, 1)))

\* Python truthiness of a decoded value
Truthy(x) ==
    IF x.k = "none" \/ x.k = "err" THEN FALSE
    ELSE IF x.k = "num" THEN x.v # <<"0">>
    ELSE IF x.k = "bool" THEN x.v = <<"t", "r", "u", "e">>
    ELSE IF x.k = "obj" THEN DOMAIN x.v # {}
    ELSE Len(x.v) > 0

Str(chars) == [k |-> "str", v |-> chars]

IsNone(x) == x.k = "none"

\* ------------------------------------------------------------------ dicts

\* faulty variant: the value already held is kept on an equal key
MergeKeepingOld(a, b) ==
    [x \in (DOMAIN a) \cup (DOMAIN b) |-> IF x \in DOMAIN a THEN a[x] ELSE b[x]]

\* dict union, b's value on an equal key (the result of a |= b for two dicts)
Merge(a, b) ==
    [x \in (DOMAIN a) \cup (DOMAIN b) |-> IF x \in DOMAIN b THEN b[x] ELSE a[x]]

\* data |= loaded, for a dict data and a decoded JSON value loaded.  A dict is
\* merged; an empty list or empty string is an empty update; a number, null or
\* boolean is not iterable and a list of them holds no key/value pair
\* (TypeError); the characters of a string are no key/value pairs (ValueError).
DictIor(data, loaded) ==
    IF loaded.k = "obj" THEN [err |-> "none", v |-> Merge(data, loaded.v)]
    ELSE IF loaded.k \in {"list", "str"} /\ Len(loaded.v) = 0
         THEN [err |-> "none", v |-> data]
    ELSE IF loaded.k = "str" THEN [err |-> "ValueError", v |-> data]
    ELSE [err |-> "TypeError", v |-> data]

\* A dict[int, str] in insertion order is a sequence of <<slot, buffer>> pairs.
NoSlot == "None"

RECURSIVE SlotPos(_, _, _)
SlotPos(tr, slot, i) ==
    IF i > Len(tr) THEN 0
    ELSE IF tr[i][1] = slot THEN i
    ELSE SlotPos(tr, slot, i + 1)

\* tool_responses[slot], the defaultdict(str) giving "" for a new slot
SlotBuffer(tr, slot) ==
    IF SlotPos(tr, slot, 1) = 0 THEN <<>> ELSE tr[SlotPos(tr, slot, 1)][2]

\* tool_responses[slot] += delta
SlotAppend(tr, slot, delta) ==
    IF SlotPos(tr, slot, 1) = 0 THEN Append(tr, <<slot, delta>>)
    ELSE [tr EXCEPT ![SlotPos(tr, slot, 1)] = <<slot, tr[SlotPos(tr, slot, 1)][2] \o delta>>]

\* ------------------------------------------------------------------ inputs

\* Bounds of the model
MaxEvents == 3
MaxFailures == 2

\* model identifiers
GptModel     == <<"g", "p", "t", "-", "4">>
AzureModel   == <<"a", "z", "/", "g", "p", "t">>
ClaudeModel  == <<"c", "l", "a", "u", "d", "e", "-", "3">>
OllamaModel  == <<"o", "l", "l", "a", "m", "a", "/", "m">>
MistralModel == <<"m", "i", "s", "t", "r", "a", "l">>
Models == {GptModel, AzureModel, ClaudeModel, OllamaModel, MistralModel}

\* inputs.output_schema: None, or the names of the (all required) fields
SchemaA == [k |-> "schema", v |-> <<<<"a">>>>]
Schemas == {None, SchemaA}

\* texts a provider streams
TxtObjA1  == <<"{", Q, "a", Q, ":", "1", "}">>
TxtObjA2  == <<"{", Q, "a", Q, ":", "2", "}">>
TxtObjB2  == <<"{", Q, "b", Q, ":", "2", "}">>
TxtOpenA  == <<"{", Q, "a", Q>>
TxtClose1 == <<":", "1", "}">>
TxtNo     == <<"n", "o">>
TxtOne    == <<"1">>
TxtSpace  == <<" ">>
TxtEmpty  == <<>>

\* A provider delta of the generic adapter: completion.choices[0].delta, with
\* content a str or None and tool_calls None (<<>>) or a list of tool calls.
Call(i, args) == [index |-> i, arguments |-> args]
Delta(c, calls) == [content |-> c, tool_calls |-> calls]
ProviderDeltas ==
    { Delta(None, <<>>),
      Delta(Str(TxtObjA1), <<>>),
      Delta(Str(TxtNo), <<>>),
      Delta(Str(TxtEmpty), <<>>),
      Delta(None, <<Call("0", Str(TxtObjA1))>>),
      Delta(None, <<Call("1", Str(TxtObjA2))>>),
      Delta(None, <<Call("1", Str(TxtObjB2))>>),
      Delta(None, <<Call("0", Str(TxtOpenA))>>),
      Delta(None, <<Call("0", Str(TxtClose1))>>),
      Delta(None, <<Call("0", Str(TxtSpace))>>),
      Delta(None, <<Call("0", Str(TxtOne))>>),
      Delta(None, <<Call("0", None)>>) }

\* text fragments of the native Anthropic text_stream
AnthropicTexts == {<<"a">>, <<"b">>}

\* lines of an Ollama response body
Msg     == <<"m", "e", "s", "s", "a", "g", "e">>
Content == <<"c", "o", "n", "t", "e", "n", "t">>
OllamaLineOf(val) ==
    <<"{", Q>> \o Msg \o <<Q, ":", "{", Q>> \o Content \o <<Q, ":">> \o val \o <<"}", "}">>
LineHi    == OllamaLineOf(<<Q, "H", "i", Q>>)
LineYo    == OllamaLineOf(<<Q, "y", "o", Q>>)
LineNum   == OllamaLineOf(<<"1">>)
LineEmpty == OllamaLineOf(<<Q, Q>>)
LineDone  == <<"{", Q, "d", "o", "n", "e", Q, ":", "t", "r", "u", "e", "}">>
LineBad   == <<"{", Q, "m">>
OllamaLines == {LineHi, LineYo, LineNum, LineEmpty, LineDone, LineBad, <<>>}

\* ------------------------------------------------------------------ errors

\* retry_errors; anthropic.AnthropicError is added when anthropic imports
retry_errors == {"aiohttp.ClientError", "openai.OpenAIError", "anthropic.AnthropicError"}

\* errors a provider call raises that are outside the retryable family
FatalProviderErrors == {"asyncio.TimeoutError"}

\* faulty variant: every exception is retried
RetryIfAnyException(e) == TRUE

\* tenacity.retry_if_exception_type(retry_errors)
RetryIf(e) == e \in retry_errors

\* ------------------------------------------------------------------ adapters

\* faulty variant: the schema is not looked at
InvokeLlmIgnoringSchema(m, sch) ==
    IF StartsWith(m, <<"c", "l", "a", "u", "d", "e">>) THEN "anthropic"
    ELSE IF StartsWith(m, <<"o", "l", "l", "a", "m", "a", "/">>) THEN "ollama"
    ELSE "litellm"

\* Prompt.invoke_llm: the strategy whose iterator the attempt consumes
InvokeLlm(m, sch) ==
    IF StartsWith(m, <<"c", "l", "a", "u", "d", "e">>) /\ IsNone(sch) THEN "anthropic"
    ELSE IF StartsWith(m, <<"o", "l", "l", "a", "m", "a", "/">>) /\ IsNone(sch) THEN "ollama"
    ELSE "litellm"

\* process_completion: delta = data["message"]["content"]; if delta: return delta
CompletionDelta(delta) == IF Truthy(delta) THEN delta ELSE None

\* process_completion: the checks on data["message"]
CompletionMessage(message) ==
    IF message.k # "obj" THEN None
    ELSE IF Content \notin DOMAIN message.v THEN None
    ELSE CompletionDelta(JsonLoads(message.v[Content]))

\* process_completion: the checks on data
CompletionData(data) ==
    IF data.k = "err" THEN None
    ELSE IF data.k # "obj" THEN None
    ELSE IF Msg \notin DOMAIN data.v THEN None
    ELSE CompletionMessage(JsonLoads(data.v[Msg]))

\* _invoke_ollama.process_completion: the delta of a line, or None
ProcessCompletion(completion) ==
    IF completion = <<>> THEN None ELSE CompletionData(JsonLoads(completion))

\* faulty variant: the test is a prefix test
UseToolCallingByPrefix(m) == ~StartsWith(m, <<"g", "p", "t">>)

\* _invoke_litellm: use_tool_calling
UseToolCalling(m) == ~Contains(m, <<"g", "p", "t">>)

\* _invoke_litellm: schema_kwargs, a dict by its keys (<<>> is the empty dict)
SchemaKwargs(m, sch) ==
    IF IsNone(sch) THEN <<>>
    ELSE IF ~UseToolCalling(m)
    THEN [response_format |->
            [type |-> "json_schema",
             json_schema |-> [name |-> "function", schema |-> sch, strict |-> TRUE]]]
    ELSE [tool_choice |-> "required",
          tools |-> << [type |-> "function",
                        function |-> [name |-> "function", parameters |-> sch]] >>]

\* faulty variant: the loop ends on a payload that is falsy, not only on None
LitellmSelectTruthy(d, m, sch, ti) ==
    IF ~IsNone(sch) /\ UseToolCalling(m)
    THEN IF Len(d.tool_calls) > 0 /\ Truthy(d.tool_calls[1].arguments)
         THEN [delta_string |-> d.tool_calls[1].arguments,
               tool_index   |-> d.tool_calls[1].index]
         ELSE [delta_string |-> None,
               tool_index   |-> IF Len(d.tool_calls) > 0 THEN d.tool_calls[1].index ELSE ti]
    ELSE [delta_string |-> IF Truthy(d.content) THEN d.content ELSE None, tool_index |-> ti]

\* faulty variant: a delta of tool mode that holds no tool call gives its content
LitellmSelectEither(d, m, sch, ti) ==
    IF ~IsNone(sch) /\ UseToolCalling(m) /\ Len(d.tool_calls) > 0
    THEN [delta_string |-> d.tool_calls[1].arguments,
          tool_index   |-> d.tool_calls[1].index]
    ELSE [delta_string |-> d.content, tool_index |-> ti]

\* _invoke_litellm: delta_string and tool_index after one provider delta;
\* ti is tool_index before it
LitellmSelect(d, m, sch, ti) ==
    IF ~IsNone(sch) /\ UseToolCalling(m)
    THEN IF Len(d.tool_calls) > 0
         THEN [delta_string |-> d.tool_calls[1].arguments,
               tool_index   |-> d.tool_calls[1].index]
         ELSE [delta_string |-> None, tool_index |-> ti]
    ELSE [delta_string |-> d.content, tool_index |-> ti]

\* ------------------------------------------------------------------ accumulator

\* iterate_invoke_llm: the locals before the first event
FreshAccumulator == [output |-> <<>>, tool_responses |-> <<>>, partial_data |-> <<>>]

Event(delta, slot) == [delta |-> delta, slot |-> slot]

\* iterate_invoke_llm: partial_data |= loaded_output, inside the try
AccumulateLoaded(out, tr, pd, loaded) ==
    IF loaded.k = "err"
    THEN [err |-> "none",
          st  |-> [output |-> out, tool_responses |-> tr, partial_data |-> pd]]
    ELSE [err |-> DictIor(pd, loaded).err,
          st  |-> [output |-> out, tool_responses |-> tr,
                   partial_data |-> DictIor(pd, loaded).v]]

\* iterate_invoke_llm: tool_responses[tool_index] += partial_output, json.loads
AccumulateSlot(out, tr, pd, slot) ==
    AccumulateLoaded(out, tr, pd, JsonLoads(SlotBuffer(tr, slot)))

\* iterate_invoke_llm: the loop body for one event (partial_output, tool_index).
\* err is the exception the body raises, "none" when it reaches the yield.
Accumulate(st, ev) ==
    IF ev.delta.k # "str" THEN [err |-> "TypeError", st |-> st]
    ELSE IF ev.slot = NoSlot
    THEN [err |-> "none", st |-> [st EXCEPT !.output = st.output \o ev.delta.v]]
    ELSE AccumulateSlot(st.output \o ev.delta.v,
                        SlotAppend(st.tool_responses, ev.slot, ev.delta.v),
                        st.partial_data, ev.slot)

\* ------------------------------------------------------------------ finalizer

RECURSIVE MergeToolResponses(_, _, _)

\* faulty variant: a buffer that does not decode is skipped
MergeToolResponseSkipping(tr, i, data, loaded) ==
    IF loaded.k = "err" THEN MergeToolResponses(tr, i + 1, data)
    ELSE IF DictIor(data, loaded).err # "none"
         THEN [k |-> DictIor(data, loaded).err, v |-> data]
    ELSE MergeToolResponses(tr, i + 1, DictIor(data, loaded).v)

\* parse_structured_response: data |= json.loads(tool_response) for buffer i
MergeToolResponse(tr, i, data, loaded) ==
    IF loaded.k = "err" THEN [k |-> "JSONDecodeError", v |-> data]
    ELSE IF DictIor(data, loaded).err # "none"
         THEN [k |-> DictIor(data, loaded).err, v |-> data]
    ELSE MergeToolResponses(tr, i + 1, DictIor(data, loaded).v)

\* parse_structured_response: the loop over tool_responses.values()
MergeToolResponses(tr, i, data) ==
    IF i > Len(tr) THEN [k |-> "obj", v |-> data]
    ELSE MergeToolResponse(tr, i, data, JsonLoads(tr[i][2]))

\* model.model_validate(data) for the model of a schema whose fields are all
\* required: data is a mapping that holds every field
SchemaValidates(data, sch) ==
    /\ data.k = "obj"
    /\ \A i \in 1..Len(sch.v) : sch.v[i] \in DOMAIN data.v

\* parse_structured_response after the decoding: cand is the decoded data or
\* the exception of the decoding
ParseCandidate(cand, sch) ==
    IF cand.k \in {"JSONDecodeError", "err"} THEN None
    ELSE IF cand.k \in {"TypeError", "ValueError"} THEN [k |-> "raise", v |-> cand.k]
    ELSE IF ~SchemaValidates(cand, sch) THEN None
    ELSE [k |-> "data", v |-> cand]

\* parse_structured_response: [k |-> "data", v |-> the dict], None, or
\* [k |-> "raise"] with the exception that escapes it
ParseStructuredResponse(tr, out, sch) ==
    IF Len(tr) > 0 THEN ParseCandidate(MergeToolResponses(tr, 1, <<>>), sch)
    ELSE ParseCandidate(JsonLoads(out), sch)

\* Outputs(result=output, response=output, data=data)
Outputs(out, data) == [result |-> out, response |-> out, data |-> data]

\* partial_data or None
OrNone(pd) == IF DOMAIN pd = {} THEN None ELSE [k |-> "obj", v |-> pd]

NoOutput == [result |-> <<>>, response |-> <<>>, data |-> [k |-> "unset", v |-> <<>>]]

FinalizationError == "RuntimeError: Data returned by LLM does not adhere to output schema"

\* ------------------------------------------------------------------ Prompt.run

VARIABLES
    model,            \* resolved_model.model
    schema,           \* inputs.output_schema
    pc,               \* where Prompt.run is
    attempts,         \* attempts started by the retry loop
    failures,         \* attempts that ended with a retryable error
    events,           \* stream events delivered so far
    strategy,         \* the adapter whose iterator invoke_llm consumes
    selected,         \* the strategies the attempts of this invocation selected
    producers,        \* the adapters that produced an event of the current attempt
    tool_index,       \* _invoke_litellm's tool_index
    acc,              \* iterate_invoke_llm's output, tool_responses, partial_data
    bound,            \* run's tool_responses names the current attempt's dict
    output,           \* run's output
    tool_responses,   \* run's tool_responses
    lastOut,          \* the last incremental Outputs yielded
    nOut,             \* number of incremental Outputs yielded
    final,            \* the final Outputs yielded
    cost,             \* estimated_cost_usd
    attempt_err,      \* the exception the current attempt ended with
    delivered,        \* the stream events invoke_llm gave in the current attempt
    emitted,          \* the states iterate_invoke_llm yielded in the current attempt
    err               \* the exception that left Prompt.run

runVars == <<model, schema, pc, attempts, failures, events, strategy, selected,
             producers, tool_index,
             acc, bound, output, tool_responses, lastOut, nOut, final, cost,
             attempt_err, delivered, emitted, err>>

\* parse_structured_response called on its own
VARIABLES
    p_pc,             \* "call" before the call, "returned" after it
    p_tool_responses, \* the argument tool_responses
    p_output,         \* the argument output
    p_schema,         \* the argument schema
    p_result          \* what the call gave

parseVars == <<p_pc, p_tool_responses, p_output, p_schema, p_result>>

\* PromptEnvContext and the process environment
VARIABLES
    environ,                \* os.environ, "unset" for a variable that is not set
    anthropic_env_var_bak,  \* self.anthropic_env_var_bak, "None" or a value
    gcp_env_var_bak,        \* self.gcp_env_var_bak, "None" or a value
    file,                   \* self.file: "None", "open" or "closed"
    ctx_pc,                 \* "out" of the with block or "in" it
    ctx_last,               \* how the last with statement ended
    env_before,             \* os.environ immediately before the last enter
    pairs                   \* with statements begun

envVars == <<environ, anthropic_env_var_bak, gcp_env_var_bak, file, ctx_pc, ctx_last,
             env_before, pairs>>

\* _invoke_ollama consumed by iterate_invoke_llm
VARIABLES
    o_pc,       \* "recv" while the response is read, then "done" or "failed"
    o_body,     \* the bytes of the response body
    o_pos,      \* bytes that response.content.iter_any() has delivered
    o_buffer,   \* buffer
    o_events,   \* the deltas yielded so far
    o_acc,      \* iterate_invoke_llm's output, tool_responses, partial_data
    o_err       \* the exception that ended the attempt

ollamaVars == <<o_pc, o_body, o_pos, o_buffer, o_events, o_acc, o_err>>

\* _invoke_litellm
VARIABLES
    l_pc,          \* "init", "stream", then "done" or "failed"
    l_model,       \* model_config.model
    l_schema,      \* schema
    l_kwargs,      \* schema_kwargs
    l_client,      \* client: "None", "open" or "closed"
    l_ctx,         \* prompt_env_context_singleton: "out" or "in"
    l_tool_index,  \* tool_index
    l_received,    \* the provider deltas the loop has taken
    l_events,      \* the events yielded so far
    l_end,         \* how the loop ended: "none", "break", "exhausted", "error"
    l_err          \* the exception that left the adapter

litellmVars == <<l_pc, l_model, l_schema, l_kwargs, l_client, l_ctx, l_tool_index,
                 l_received, l_events, l_end, l_err>>

\* build_messages and its call by Prompt.run
VARIABLES
    b_pc,                      \* "loop", then "returned" or "raised", then "retrying"
    prompt,                    \* message_config: a str or a list of prompt elements
    quote_style,               \* quote_style: "None", "xml" or "backticks"
    b_model,                   \* model_config.model
    max_prompt_tokens,         \* model_config.max_prompt_tokens
    b_i,                       \* the index of the next element of the loop
    messages,                  \* messages
    current_role,              \* current_role
    current_message_elements,  \* current_message_elements
    rendered,                  \* the indices of the elements as_string was called on
    token_count,               \* token_count, "unset" before the count
    trim,                      \* the call of litellm.utils.trim_messages
    b_result,                  \* the list build_messages returned
    b_err,                     \* the exception build_messages raised
    b_attempts                 \* attempts the retry loop of run has started

buildVars == <<b_pc, prompt, quote_style, b_model, max_prompt_tokens, b_i, messages,
               current_role, current_message_elements, rendered, token_count, trim,
               b_result, b_err, b_attempts>>

vars == <<runVars, parseVars, envVars, ollamaVars, litellmVars, buildVars>>

notRun == <<parseVars, envVars, ollamaVars, litellmVars, buildVars>>
notParse == <<runVars, envVars, ollamaVars, litellmVars, buildVars>>
notEnv == <<runVars, parseVars, ollamaVars, litellmVars, buildVars>>
notOllama == <<runVars, parseVars, envVars, litellmVars, buildVars>>
notLitellm == <<runVars, parseVars, envVars, ollamaVars, buildVars>>
notBuild == <<runVars, parseVars, envVars, ollamaVars, litellmVars>>

\* the state of a component that is not running
RunIdle ==
    /\ model = MistralModel
    /\ schema = None
    /\ pc = "idle"
    /\ attempts = 0
    /\ failures = 0
    /\ events = 0
    /\ strategy = "none"
    /\ selected = {}
    /\ producers = {}
    /\ tool_index = NoSlot
    /\ acc = FreshAccumulator
    /\ bound = FALSE
    /\ output = <<>>
    /\ tool_responses = <<>>
    /\ lastOut = NoOutput
    /\ nOut = 0
    /\ final = NoOutput
    /\ cost = "unset"
    /\ attempt_err = "none"
    /\ delivered = <<>>
    /\ emitted = <<>>
    /\ err = "none"

ParseIdle ==
    /\ p_pc = "idle"
    /\ p_tool_responses = <<>>
    /\ p_output = <<>>
    /\ p_schema = SchemaA
    /\ p_result = None

OllamaIdle ==
    /\ o_pc = "idle"
    /\ o_body = <<>>
    /\ o_pos = 0
    /\ o_buffer = <<>>
    /\ o_events = <<>>
    /\ o_acc = FreshAccumulator
    /\ o_err = "none"

LitellmIdle ==
    /\ l_pc = "idle"
    /\ l_model = MistralModel
    /\ l_schema = None
    /\ l_kwargs = <<>>
    /\ l_client = "None"
    /\ l_ctx = "out"
    /\ l_tool_index = NoSlot
    /\ l_received = <<>>
    /\ l_events = <<>>
    /\ l_end = "none"
    /\ l_err = "none"

NotTrimmed == [called |-> FALSE, trim_ratio |-> 0, max_tokens |-> 0, gave |-> None]

BuildIdle ==
    /\ b_pc = "idle"
    /\ prompt = Str(<<>>)
    /\ quote_style = "None"
    /\ b_model = MistralModel
    /\ max_prompt_tokens = 1
    /\ b_i = 1
    /\ messages = <<>>
    /\ current_role = "user"
    /\ current_message_elements = <<>>
    /\ rendered = {}
    /\ token_count = "unset"
    /\ trim = NotTrimmed
    /\ b_result = <<>>
    /\ b_err = "none"
    /\ b_attempts = 0

EnvVarNames == {"ANTHROPIC_API_KEY", "GOOGLE_APPLICATION_CREDENTIALS"}

EnvIdle ==
    /\ environ = [n \in EnvVarNames |-> "unset"]
    /\ anthropic_env_var_bak = "None"
    /\ gcp_env_var_bak = "None"
    /\ file = "None"
    /\ ctx_pc = "out"
    /\ ctx_last = "none"
    /\ env_before = [n \in EnvVarNames |-> "unset"]
    /\ pairs = 0

RunInit ==
    /\ model \in Models
    /\ schema \in Schemas
    /\ pc = "retry"
    /\ attempts = 0
    /\ failures = 0
    /\ events = 0
    /\ strategy = "none"
    /\ selected = {}
    /\ producers = {}
    /\ tool_index = NoSlot
    /\ acc = FreshAccumulator
    /\ bound = FALSE
    /\ output = <<>>
    /\ tool_responses = <<>>
    /\ lastOut = NoOutput
    /\ nOut = 0
    /\ final = NoOutput
    /\ cost = "unset"
    /\ attempt_err = "none"
    /\ delivered = <<>>
    /\ emitted = <<>>
    /\ err = "none"

\* tenacity starts an attempt: a new iterate_invoke_llm generator
StartAttempt ==
    /\ pc = "retry"
    /\ pc' = "stream"
    /\ attempts' = attempts + 1
    /\ strategy' = InvokeLlm(model, schema)
    /\ selected' = selected \cup {InvokeLlm(model, schema)}
    /\ producers' = {}
    /\ tool_index' = NoSlot
    /\ acc' = FreshAccumulator
    /\ bound' = FALSE
    /\ attempt_err' = "none"
    /\ delivered' = <<>>
    /\ emitted' = <<>>
    /\ UNCHANGED <<model, schema, failures, events, output, tool_responses,
                   lastOut, nOut, final, cost, err>>
    /\ UNCHANGED notRun

\* faulty variant: an error that is not retried is taken for the end of the stream
AttemptRaisesSwallowing(e) ==
    /\ attempt_err' = e
    /\ IF RetryIf(e)
       THEN /\ pc' = "retry"
            /\ failures' = failures + 1
            /\ err' = err
       ELSE /\ pc' = "cost"
            /\ failures' = failures
            /\ err' = err

\* the attempt raises e inside `with attempt`: retried or propagated
AttemptRaises(e) ==
    /\ attempt_err' = e
    /\ IF RetryIf(e)
       THEN /\ pc' = "retry"
            /\ failures' = failures + 1
            /\ err' = err
       ELSE /\ pc' = "failed"
            /\ failures' = failures
            /\ err' = e

\* r: what the loop body of iterate_invoke_llm did with the event; on a yield
\* run binds output and tool_responses and yields an Outputs
Consumed(r) ==
    /\ acc' = r.st
    /\ IF r.err = "none"
       THEN /\ output' = r.st.output
            /\ tool_responses' = r.st.tool_responses
            /\ bound' = TRUE
            /\ lastOut' = Outputs(r.st.output, OrNone(r.st.partial_data))
            /\ nOut' = nOut + 1
            /\ emitted' = Append(emitted, r.st)
            /\ UNCHANGED <<pc, failures, attempt_err, err>>
       ELSE /\ AttemptRaises(r.err)
            /\ tool_responses' = IF bound THEN r.st.tool_responses
                                 ELSE tool_responses
            /\ UNCHANGED <<output, bound, lastOut, nOut, emitted>>

\* one stream event of adapter `by` reaches iterate_invoke_llm, which yields to run
ConsumeEvent(ev, by) ==
    /\ events < MaxEvents
    /\ events' = events + 1
    /\ delivered' = Append(delivered, ev)
    /\ Consumed(Accumulate(acc, ev))
    /\ producers' = producers \cup {by}
    /\ UNCHANGED <<model, schema, attempts, strategy, selected, final, cost>>

\* faulty variant: the retry loop is left for the validation, with no estimate
AttemptSucceedsSkippingCost ==
    /\ pc' = "finalize"
    /\ UNCHANGED <<model, schema, attempts, failures, events, strategy, selected,
                   producers, acc, bound,
                   output, tool_responses, lastOut, nOut, final, cost,
                   attempt_err, delivered, emitted, err>>

\* the attempt's stream ends without an error: the retry loop is left
AttemptSucceeds ==
    /\ pc' = "cost"
    /\ UNCHANGED <<model, schema, attempts, failures, events, strategy, selected,
                   producers, acc, bound,
                   output, tool_responses, lastOut, nOut, final, cost,
                   attempt_err, delivered, emitted, err>>

AnthropicEvent ==
    /\ pc = "stream"
    /\ strategy = "anthropic"
    /\ \E t \in AnthropicTexts : ConsumeEvent(Event(Str(t), NoSlot), "anthropic")
    /\ UNCHANGED tool_index
    /\ UNCHANGED notRun

OllamaLineEvent ==
    /\ pc = "stream"
    /\ strategy = "ollama"
    /\ \E line \in OllamaLines :
         IF IsNone(ProcessCompletion(line)) THEN UNCHANGED vars
         ELSE /\ ConsumeEvent(Event(ProcessCompletion(line), NoSlot), "ollama")
              /\ UNCHANGED tool_index
    /\ UNCHANGED notRun

\* sel: delta_string and tool_index after the provider's delta
LitellmYield(sel) ==
    /\ tool_index' = sel.tool_index
    /\ IF IsNone(sel.delta_string)
       THEN AttemptSucceeds
       ELSE ConsumeEvent(Event(sel.delta_string, sel.tool_index), "litellm")

LitellmEvent ==
    /\ pc = "stream"
    /\ strategy = "litellm"
    /\ \E d \in ProviderDeltas : LitellmYield(LitellmSelect(d, model, schema, tool_index))
    /\ UNCHANGED notRun

StreamExhausted ==
    /\ pc = "stream"
    /\ AttemptSucceeds
    /\ UNCHANGED tool_index
    /\ UNCHANGED notRun

ProviderError ==
    /\ pc = "stream"
    /\ \E e \in retry_errors \cup FatalProviderErrors :
         /\ RetryIf(e) => failures < MaxFailures
         /\ AttemptRaises(e)
    /\ UNCHANGED <<model, schema, attempts, events, strategy, selected, producers,
                   tool_index, acc, bound, output, tool_responses, lastOut, nOut,
                   final, cost, delivered, emitted>>
    /\ UNCHANGED notRun

\* estimate_cost and its except clause
EstimateCost ==
    /\ pc = "cost"
    /\ \E outcome \in {"price", "NotFoundError", "Exception"} :
         IF outcome = "price"
         THEN cost' = "price" /\ pc' = "finalize" /\ err' = err
         ELSE IF outcome = "NotFoundError"
         THEN cost' = "None" /\ pc' = "finalize" /\ err' = err
         ELSE cost' = cost /\ pc' = "failed" /\ err' = outcome
    /\ UNCHANGED <<model, schema, attempts, failures, events, strategy, selected,
                   producers, tool_index, acc, bound, output, tool_responses,
                   lastOut, nOut, final, attempt_err, delivered, emitted>>
    /\ UNCHANGED notRun

\* faulty variant: data that does not fit the schema starts a new attempt
FinalizedRetrying(data) ==
    IF data.k = "raise" THEN pc' = "failed" /\ final' = final /\ err' = data.v
    ELSE IF IsNone(data)
    THEN pc' = "retry" /\ final' = final /\ err' = err
    ELSE pc' = "done" /\ final' = Outputs(output, data.v) /\ err' = err

\* data: what parse_structured_response gave
Finalized(data) ==
    IF data.k = "raise" THEN pc' = "failed" /\ final' = final /\ err' = data.v
    ELSE IF IsNone(data)
    THEN pc' = "failed" /\ final' = final /\ err' = FinalizationError
    ELSE pc' = "done" /\ final' = Outputs(output, data.v) /\ err' = err

\* validate and yield final data
Finalize ==
    /\ pc = "finalize"
    /\ IF IsNone(schema)
       THEN pc' = "done" /\ final' = final /\ err' = err
       ELSE Finalized(ParseStructuredResponse(tool_responses, output, schema))
    /\ UNCHANGED <<model, schema, attempts, failures, events, strategy, selected,
                   producers, tool_index, acc, bound, output, tool_responses,
                   lastOut, nOut, cost, attempt_err, delivered, emitted>>
    /\ UNCHANGED notRun

Init == RunInit /\ ParseIdle /\ EnvIdle /\ OllamaIdle /\ LitellmIdle /\ BuildIdle

Next ==
    \/ StartAttempt
    \/ AnthropicEvent
    \/ OllamaLineEvent
    \/ LitellmEvent
    \/ StreamExhausted
    \/ ProviderError
    \/ EstimateCost
    \/ Finalize

Spec == Init /\ [][Next]_vars

\* run leaves the validation block.  Possible exactly when Finalize is (at
\* pc = "finalize"), and every Finalize step leaves that position for good, so
\* weak fairness of this step and of Finalize are the same condition; this one
\* is decided from pc alone, without the JSON decoding.
LeavesFinalize ==
    /\ pc = "finalize"
    /\ pc' = "done"
    /\ UNCHANGED <<model, schema, attempts, failures, events, strategy, selected,
                   producers, tool_index, acc, bound, output, tool_responses,
                   lastOut, nOut, final, cost, attempt_err, delivered, emitted, err>>
    /\ UNCHANGED notRun

\* Prompt.run driven by a consumer that keeps asking for the next output, on an
\* event loop that runs every task that is ready: tenacity's sleep ends and the
\* next attempt starts, a stream that is not cut by an error comes to its end,
\* and the steps after the retry loop are taken.  The provider's retryable
\* failures are finitely many (MaxFailures).
SpecLive ==
    /\ Init
    /\ [][Next]_vars
    /\ WF_vars(StartAttempt)
    /\ WF_vars(StreamExhausted)
    /\ WF_vars(EstimateCost)
    /\ WF_vars(LeavesFinalize)

\* ------------------------------------------------------------------ parse_structured_response alone

MaxSlots == 2

ToolSlots == {"0", "1", "2"}
ToolBuffers == {TxtObjA1, TxtObjA2, TxtObjB2, TxtOpenA, TxtOne, TxtEmpty}

\* the dicts of n slots, in every insertion order
RECURSIVE ToolResponsesOfLen(_)
ToolResponsesOfLen(n) ==
    IF n = 0 THEN {<<>>}
    ELSE { Append(x[1], <<x[2], x[3]>>) :
             x \in { y \in ToolResponsesOfLen(n - 1) \X ToolSlots \X ToolBuffers :
                       SlotPos(y[1], y[2], 1) = 0 } }

ParseInit ==
    /\ p_pc = "call"
    /\ p_tool_responses \in UNION {ToolResponsesOfLen(n) : n \in 0..MaxSlots}
    /\ p_output \in {TxtObjA1, TxtObjB2, TxtNo}
    /\ p_schema = SchemaA
    /\ p_result = None

ParseCall ==
    /\ p_pc = "call"
    /\ p_pc' = "returned"
    /\ p_result' = ParseStructuredResponse(p_tool_responses, p_output, p_schema)
    /\ UNCHANGED <<p_tool_responses, p_output, p_schema>>
    /\ UNCHANGED notParse

NextParse == ParseCall

InitParse == RunIdle /\ ParseInit /\ EnvIdle /\ OllamaIdle /\ LitellmIdle /\ BuildIdle

SpecParse == InitParse /\ [][NextParse]_vars

\* ------------------------------------------------------------------ PromptEnvContext

MaxPairs == 2

\* what get_secret gives for ANTHROPIC_API_KEY and for GCP_CREDENTIALS_64 (a
\* value that decodes as base64 and ASCII, or one that does not)
AnthropicSecrets == {"None", "secret-key"}
GcpSecrets == {"None", "valid-b64", "invalid-b64"}

\* os.environ.get(name), "None" for a variable that is not set
EnvironGet(env, name) == IF env[name] = "unset" THEN "None" ELSE env[name]

\* exit: the variable after `if bak is not None: set it; elif in environ: del it`
RestoredValue(bak) == IF bak # "None" THEN bak ELSE "unset"

EnvInit ==
    /\ environ \in [EnvVarNames -> {"unset", "user-value"}]
    /\ anthropic_env_var_bak = "None"
    /\ gcp_env_var_bak = "None"
    /\ file = "None"
    /\ ctx_pc = "out"
    /\ ctx_last = "none"
    /\ env_before = environ
    /\ pairs = 0

\* the body of PromptEnvContext.enter with what get_secret gives; pc_in is the
\* position when it returns.  With credentials that do not decode enter raises
\* after the ANTHROPIC_API_KEY lines: the body of the with and exit are skipped.
Entered(key, cred, pc_in) ==
    /\ anthropic_env_var_bak' =
         IF key # "None" THEN EnvironGet(environ, "ANTHROPIC_API_KEY")
         ELSE anthropic_env_var_bak
    /\ IF cred = "invalid-b64"
       THEN /\ environ' = [environ EXCEPT !["ANTHROPIC_API_KEY"] =
                              IF key # "None" THEN key ELSE @]
            /\ UNCHANGED <<gcp_env_var_bak, file>>
            /\ ctx_pc' = ctx_pc
            /\ ctx_last' = "enter raised"
       ELSE /\ environ' = [environ EXCEPT
                              !["ANTHROPIC_API_KEY"] =
                                  IF key # "None" THEN key ELSE @,
                              !["GOOGLE_APPLICATION_CREDENTIALS"] =
                                  IF cred # "None" THEN "tmp-path" ELSE @]
            /\ gcp_env_var_bak' =
                 IF cred # "None"
                 THEN EnvironGet(environ, "GOOGLE_APPLICATION_CREDENTIALS")
                 ELSE gcp_env_var_bak
            /\ file' = IF cred # "None" THEN "open" ELSE file
            /\ ctx_pc' = pc_in
            /\ ctx_last' = "entered"

\* PromptEnvContext.enter, as the with statement calls it
Enter ==
    /\ ctx_pc = "out"
    /\ pairs < MaxPairs
    /\ pairs' = pairs + 1
    /\ env_before' = environ
    /\ \E key \in AnthropicSecrets, cred \in GcpSecrets : Entered(key, cred, "in")
    /\ UNCHANGED notEnv

\* a second _invoke_litellm reaches `with prompt_env_context_singleton:` while
\* the first is suspended inside it.  The with statement goes through
\* SingletonContext, a class of the aijson package: either it calls enter again
\* (position "in2-each"), or it counts the entries and calls enter for the
\* first one only (position "in2-counted").
EnterOverlapping ==
    /\ ctx_pc = "in"
    /\ pairs < MaxPairs
    /\ pairs' = pairs + 1
    /\ \/ \E key \in AnthropicSecrets, cred \in GcpSecrets : Entered(key, cred, "in2-each")
       \/ /\ ctx_pc' = "in2-counted"
          /\ ctx_last' = "entered"
          /\ UNCHANGED <<environ, anthropic_env_var_bak, gcp_env_var_bak, file>>
    /\ UNCHANGED env_before
    /\ UNCHANGED notEnv

\* the first of two overlapping invocations leaves the with: exit is called for
\* it when enter was called for each entry, and is left to the last one out
\* when the entries are counted
ExitOverlapping ==
    /\ ctx_pc \in {"in2-each", "in2-counted"}
    /\ ctx_pc' = "in"
    /\ ctx_last' = "inner exited"
    /\ IF ctx_pc = "in2-each"
       THEN /\ file' = IF file # "None" THEN "closed" ELSE file
            /\ environ' = [environ EXCEPT
                              !["ANTHROPIC_API_KEY"] = RestoredValue(anthropic_env_var_bak),
                              !["GOOGLE_APPLICATION_CREDENTIALS"] =
                                  RestoredValue(gcp_env_var_bak)]
       ELSE UNCHANGED <<file, environ>>
    /\ UNCHANGED <<anthropic_env_var_bak, gcp_env_var_bak, env_before, pairs>>
    /\ UNCHANGED notEnv

\* PromptEnvContext.exit, as the with statement calls it when the body ends or
\* raises
Exit ==
    /\ ctx_pc = "in"
    /\ ctx_pc' = "out"
    /\ \E raised \in BOOLEAN :
         ctx_last' = IF raised THEN "body raised" ELSE "body ended"
    /\ file' = IF file # "None" THEN "closed" ELSE file
    /\ environ' = [environ EXCEPT
                      !["ANTHROPIC_API_KEY"] = RestoredValue(anthropic_env_var_bak),
                      !["GOOGLE_APPLICATION_CREDENTIALS"] = RestoredValue(gcp_env_var_bak)]
    /\ UNCHANGED <<anthropic_env_var_bak, gcp_env_var_bak, env_before, pairs>>
    /\ UNCHANGED notEnv

NextEnv ==
    \/ Enter
    \/ Exit
    \/ EnterOverlapping
    \/ ExitOverlapping

InitEnv == RunIdle /\ ParseIdle /\ EnvInit /\ OllamaIdle /\ LitellmIdle /\ BuildIdle

SpecEnv == InitEnv /\ [][NextEnv]_vars

\* ------------------------------------------------------------------ _invoke_ollama alone

MaxLines == 2

NL == "\n"

\* A byte of the body is written as its ASCII character; "C3" and "A9" are the
\* two bytes that encode the character written "U+E9".
LineCafe == OllamaLineOf(<<Q, "C3", "A9", Q>>)
OllamaBodyLines == OllamaLines \cup {LineCafe}

\* the bodies of n lines, each ended by a newline
RECURSIVE BodiesOf(_)
BodiesOf(n) ==
    IF n = 0 THEN {<<>>}
    ELSE {b \o l \o <<NL>> : b \in BodiesOf(n - 1), l \in OllamaBodyLines}

\* a response body: lines ended by newlines, the last one perhaps without
OllamaBodies ==
    UNION { BodiesOf(n) \cup {b \o l : b \in BodiesOf(n - 1), l \in OllamaBodyLines} :
            n \in 1..MaxLines }

\* bytes.decode() of the bytes b from index i on: the text, or UnicodeDecodeError
\* for a lead byte without its continuation or a continuation without its lead
RECURSIVE Utf8Decode(_, _, _)
Utf8Decode(b, i, text) ==
    IF i > Len(b) THEN [k |-> "str", v |-> text]
    ELSE IF b[i] = "C3"
    THEN IF i < Len(b) /\ b[i + 1] = "A9"
         THEN Utf8Decode(b, i + 2, Append(text, "U+E9"))
         ELSE [k |-> "UnicodeDecodeError", v |-> text]
    ELSE IF b[i] = "A9" THEN [k |-> "UnicodeDecodeError", v |-> text]
    ELSE Utf8Decode(b, i + 1, Append(text, b[i]))

RECURSIVE DrainLines(_, _)

\* if completion is not None: yield completion, None
DrainYield(completion, rest, yielded) ==
    DrainLines(rest, IF IsNone(completion) THEN yielded ELSE Append(yielded, completion))

\* json_, buffer = buffer.split("\n", 1), the newline at index p
DrainSplit(buffer, p, yielded) ==
    DrainYield(ProcessCompletion(SubSeq(buffer, 1, p - 1)),
               SubSeq(buffer, p + 1, Len(buffer)), yielded)

\* while "\n" in buffer: the buffer left and the deltas yielded
DrainLines(buffer, yielded) ==
    IF FindFrom(buffer, NL, 1) = 0 THEN [buffer |-> buffer, yielded |-> yielded]
    ELSE DrainSplit(buffer, FindFrom(buffer, NL, 1), yielded)

\* iterate_invoke_llm takes the deltas one by one until its loop body raises;
\* n is the number of deltas the adapter got to yield
RECURSIVE Consume(_, _, _)
Consume(st, yielded, i) ==
    IF i > Len(yielded) THEN [err |-> "none", st |-> st, n |-> Len(yielded)]
    ELSE IF Accumulate(st, Event(yielded[i], NoSlot)).err # "none"
    THEN [err |-> Accumulate(st, Event(yielded[i], NoSlot)).err, st |-> st, n |-> i]
    ELSE Consume(Accumulate(st, Event(yielded[i], NoSlot)).st, yielded, i + 1)

OllamaInit ==
    /\ o_pc = "recv"
    /\ o_body \in OllamaBodies
    /\ o_pos = 0
    /\ o_buffer = <<>>
    /\ o_events = <<>>
    /\ o_acc = FreshAccumulator
    /\ o_err = "none"

OllamaConsumed(buffer, yielded, r, closing) ==
    /\ o_buffer' = buffer
    /\ o_events' = o_events \o SubSeq(yielded, 1, r.n)
    /\ o_acc' = r.st
    /\ o_err' = r.err
    /\ o_pc' = IF r.err # "none" THEN "failed" ELSE IF closing THEN "done" ELSE "recv"

OllamaYielded(buffer, yielded, closing) ==
    OllamaConsumed(buffer, yielded, Consume(o_acc, yielded, 1), closing)

OllamaDrained(d) == OllamaYielded(d.buffer, d.yielded, FALSE)

OllamaDecoded(decoded) ==
    IF decoded.k = "UnicodeDecodeError"
    THEN /\ o_pc' = "failed"
         /\ o_err' = "UnicodeDecodeError"
         /\ UNCHANGED <<o_buffer, o_events, o_acc>>
    ELSE OllamaDrained(DrainLines(o_buffer \o decoded.v, <<>>))

\* one pass of `async for completion in response.content.iter_any()`: the chunk
\* is any number of the bytes not yet delivered
OllamaChunk ==
    /\ o_pc = "recv"
    /\ \E n \in 1..(Len(o_body) - o_pos) :
         /\ o_pos' = o_pos + n
         /\ OllamaDecoded(Utf8Decode(SubSeq(o_body, o_pos + 1, o_pos + n), 1, <<>>))
    /\ UNCHANGED o_body
    /\ UNCHANGED notOllama

\* the body has ended: `if buffer:` and the end of the generator
OllamaClose ==
    /\ o_pc = "recv"
    /\ o_pos = Len(o_body)
    /\ IF o_buffer # <<>>
       THEN OllamaYielded(o_buffer,
                IF IsNone(ProcessCompletion(o_buffer)) THEN <<>>
                ELSE <<ProcessCompletion(o_buffer)>>, TRUE)
       ELSE OllamaYielded(o_buffer, <<>>, TRUE)
    /\ UNCHANGED <<o_body, o_pos>>
    /\ UNCHANGED notOllama

\* response.raise_for_status() or the transport raises
OllamaTransportError ==
    /\ o_pc = "recv"
    /\ o_pc' = "failed"
    /\ o_err' = "aiohttp.ClientError"
    /\ UNCHANGED <<o_body, o_pos, o_buffer, o_events, o_acc>>
    /\ UNCHANGED notOllama

InitOllama == RunIdle /\ ParseIdle /\ EnvIdle /\ OllamaInit /\ LitellmIdle /\ BuildIdle

NextOllama ==
    \/ OllamaChunk
    \/ OllamaClose
    \/ OllamaTransportError

SpecOllama == InitOllama /\ [][NextOllama]_vars

\* ------------------------------------------------------------------ _invoke_litellm alone

MaxDeltas == 3

LitellmInit ==
    /\ l_pc = "init"
    /\ l_model \in Models
    /\ l_schema \in Schemas
    /\ InvokeLlm(l_model, l_schema) = "litellm"
    /\ l_kwargs = <<>>
    /\ l_client = "None"
    /\ l_ctx = "out"
    /\ l_tool_index = NoSlot
    /\ l_received = <<>>
    /\ l_events = <<>>
    /\ l_end = "none"
    /\ l_err = "none"

\* finally: if client is not None: await client.close()
ClientClosed(c) == IF c # "None" THEN "closed" ELSE c

\* the lines before the loop: schema_kwargs, client, the with statement
LitellmStart ==
    /\ l_pc = "init"
    /\ l_pc' = "stream"
    /\ l_kwargs' = SchemaKwargs(l_model, l_schema)
    /\ l_client' = IF StartsWith(l_model, <<"g", "p", "t">>) THEN "open" ELSE "None"
    /\ l_ctx' = "in"
    /\ UNCHANGED <<l_model, l_schema, l_tool_index, l_received, l_events, l_end, l_err>>
    /\ UNCHANGED notLitellm

LitellmSelected(d, sel) ==
    /\ l_received' = Append(l_received, d)
    /\ l_tool_index' = sel.tool_index
    /\ IF IsNone(sel.delta_string)
       THEN /\ l_pc' = "done"
            /\ l_end' = "break"
            /\ l_ctx' = "out"
            /\ l_client' = ClientClosed(l_client)
            /\ UNCHANGED l_events
       ELSE /\ l_events' = Append(l_events, Event(sel.delta_string, sel.tool_index))
            /\ UNCHANGED <<l_pc, l_end, l_ctx, l_client>>

\* the loop body for one provider delta
LitellmDelta ==
    /\ l_pc = "stream"
    /\ Len(l_received) < MaxDeltas
    /\ \E d \in ProviderDeltas :
         LitellmSelected(d, LitellmSelect(d, l_model, l_schema, l_tool_index))
    /\ UNCHANGED <<l_model, l_schema, l_kwargs, l_err>>
    /\ UNCHANGED notLitellm

\* the provider's stream ends
LitellmExhausted ==
    /\ l_pc = "stream"
    /\ l_pc' = "done"
    /\ l_end' = "exhausted"
    /\ l_ctx' = "out"
    /\ l_client' = ClientClosed(l_client)
    /\ UNCHANGED <<l_model, l_schema, l_kwargs, l_tool_index, l_received, l_events, l_err>>
    /\ UNCHANGED notLitellm

\* litellm.acompletion or the stream raises
LitellmError ==
    /\ l_pc = "stream"
    /\ l_pc' = "failed"
    /\ l_end' = "error"
    /\ \E e \in {"openai.OpenAIError"} \cup FatalProviderErrors : l_err' = e
    /\ l_ctx' = "out"
    /\ l_client' = ClientClosed(l_client)
    /\ UNCHANGED <<l_model, l_schema, l_kwargs, l_tool_index, l_received, l_events>>
    /\ UNCHANGED notLitellm

\* the consumer stops asking at `yield delta_string, tool_index`: the attempt is
\* over for it (it broke out of its loop, was cancelled, or raised between two
\* outputs) while the generator stays suspended inside the with and the try;
\* no caller of this generator closes it
LitellmAbandon ==
    /\ l_pc = "stream"
    /\ Len(l_events) > 0
    /\ l_pc' = "abandoned"
    /\ l_end' = "abandoned"
    /\ UNCHANGED <<l_model, l_schema, l_kwargs, l_client, l_ctx, l_tool_index, l_received,
                   l_events, l_err>>
    /\ UNCHANGED notLitellm

\* the abandoned generator is collected and the event loop runs its aclose():
\* GeneratorExit at the yield leaves the with and runs the finally; nothing
\* makes this step happen
LitellmCollected ==
    /\ l_pc = "abandoned"
    /\ l_pc' = "collected"
    /\ l_ctx' = "out"
    /\ l_client' = ClientClosed(l_client)
    /\ UNCHANGED <<l_model, l_schema, l_kwargs, l_tool_index, l_received, l_events, l_end,
                   l_err>>
    /\ UNCHANGED notLitellm

InitLitellm == RunIdle /\ ParseIdle /\ EnvIdle /\ OllamaIdle /\ LitellmInit /\ BuildIdle

NextLitellm ==
    \/ LitellmStart
    \/ LitellmDelta
    \/ LitellmExhausted
    \/ LitellmError
    \/ LitellmAbandon
    \/ LitellmCollected

SpecLitellm == InitLitellm /\ [][NextLitellm]_vars

\* ------------------------------------------------------------------ build_messages

MaxElements == 3

\* prompt elements: RoleElement, TextElement (role "None" when it has none),
\* ContextElement, and a plain str
PromptElements ==
    { [kind |-> "role", role |-> "system"],
      [kind |-> "role", role |-> "assistant"],
      [kind |-> "text", text |-> <<"h", "i">>, role |-> "None"],
      [kind |-> "text", text |-> <<>>, role |-> "None"],
      [kind |-> "text", text |-> <<"y", "o">>, role |-> "user"],
      [kind |-> "context", heading |-> <<"H">>, value |-> <<"v">>],
      [kind |-> "str", text |-> <<"s">>] }

RECURSIVE ElementLists(_)
ElementLists(n) ==
    IF n = 0 THEN {<<>>}
    ELSE {Append(l, e) : l \in ElementLists(n - 1), e \in PromptElements}

\* inputs.prompt as a str
StrPrompts == {Str(<<"h", "i">>), Str(<<>>)}

\* inputs.prompt as a list of prompt elements
ListPrompts ==
    {[k |-> "list", v |-> l] : l \in UNION {ElementLists(n) : n \in 0..MaxElements}}

\* litellm.token_counter gives some count
TokenCounts == 0..2

\* "\n\n".join(texts)
RECURSIVE JoinBlank(_)
JoinBlank(texts) ==
    IF Len(texts) = 0 THEN <<>>
    ELSE IF Len(texts) = 1 THEN texts[1]
    ELSE texts[1] \o <<NL, NL>> \o JoinBlank(Tail(texts))

\* the quote style in force: XML for claude models and backticks for the
\* others when none is given
ResolvedQuoteStyle(qs, m) ==
    IF qs # "None" THEN qs
    ELSE IF Contains(m, <<"c", "l", "a", "u", "d", "e">>) THEN "xml"
    ELSE "backticks"

\* prompt_element.as_string(quote_style); "U+60" is the backtick character
AsString(e, qs) ==
    IF e.kind = "role" THEN [k |-> "RuntimeError", v |-> <<>>]
    ELSE IF e.kind = "text" THEN Str(e.text)
    ELSE IF qs = "backticks"
    THEN Str(e.heading \o <<":", NL, "U+60", "U+60", "U+60", NL>> \o e.value \o <<NL, "U+60", "U+60", "U+60">>)
    ELSE Str(<<"<">> \o e.heading \o <<">", NL>> \o e.value
               \o <<NL, "<", "/">> \o e.heading \o <<">">>)

\* faulty variant: no element is taken as a role marker
IsNoRoleElement(e) == FALSE

\* isinstance(prompt_element, RoleElement)
IsRoleElement(e) == e.kind = "role"

\* the three locals of the assembling loop
Assembly ==
    [messages |-> messages, current_role |-> current_role,
     current_message_elements |-> current_message_elements]

\* faulty variant: the role is switched and the pending elements are kept
DepositWithoutFlush(a, new_role) == [a EXCEPT !.current_role = new_role]

\* deposit_messages(new_role)
DepositMessages(a, new_role) ==
    [messages |-> IF a.current_message_elements # <<>>
                  THEN Append(a.messages,
                              [role |-> a.current_role,
                               content |-> JoinBlank(a.current_message_elements)])
                  ELSE a.messages,
     current_role |-> new_role,
     current_message_elements |-> <<>>]

\* faulty variant: a count equal to the budget is over it
OverBudgetOrEqual(count, budget) == count >= budget

\* token_count > max_prompt_tokens
OverBudget(count, budget) == count > budget

\* what litellm.utils.trim_messages may give for msgs: None, or the list
\* without some of its first messages
TrimOutcomes(msgs) ==
    {None} \cup {[k |-> "list", v |-> SubSeq(msgs, j, Len(msgs))] : j \in 1..(Len(msgs) + 1)}

BuildInit ==
    /\ b_pc = "loop"
    /\ (prompt \in StrPrompts \/ prompt \in ListPrompts)
    /\ quote_style \in {"None", "xml", "backticks"}
    /\ b_model \in {ClaudeModel, MistralModel}
    /\ max_prompt_tokens = 1
    /\ b_i = 1
    /\ messages = <<>>
    /\ current_role = "user"
    /\ current_message_elements = <<>>
    /\ rendered = {}
    /\ token_count = "unset"
    /\ trim = NotTrimmed
    /\ b_result = <<>>
    /\ b_err = "none"
    /\ b_attempts = 0

\* the locals of the loop become a
Assembled(a) ==
    /\ messages' = a.messages
    /\ current_role' = a.current_role
    /\ current_message_elements' = a.current_message_elements

\* the end of the loop body for element e: as_str is the str itself or the
\* element's as_string, which may raise
AppendElement(e, a) ==
    IF e.kind = "str"
    THEN /\ Assembled([a EXCEPT !.current_message_elements = Append(@, e.text)])
         /\ UNCHANGED <<rendered, b_pc, b_err>>
    ELSE /\ rendered' = rendered \cup {b_i}
         /\ IF AsString(e, ResolvedQuoteStyle(quote_style, b_model)).k = "RuntimeError"
            THEN /\ b_pc' = "raised"
                 /\ b_err' = "RuntimeError: RoleElement cannot be converted to a string."
                 /\ Assembled(a)
            ELSE /\ Assembled([a EXCEPT !.current_message_elements =
                          Append(@, AsString(e, ResolvedQuoteStyle(quote_style, b_model)).v)])
                 /\ UNCHANGED <<b_pc, b_err>>

\* one pass of `for prompt_element in message_config`
BuildElement ==
    /\ b_pc = "loop"
    /\ prompt.k = "list"
    /\ b_i <= Len(prompt.v)
    /\ b_i' = b_i + 1
    /\ IF IsRoleElement(prompt.v[b_i])
       THEN /\ Assembled(DepositMessages(Assembly, prompt.v[b_i].role))
            /\ UNCHANGED <<rendered, b_pc, b_err>>
       ELSE IF prompt.v[b_i].kind = "text" /\ prompt.v[b_i].role # "None"
       THEN AppendElement(prompt.v[b_i], DepositMessages(Assembly, prompt.v[b_i].role))
       ELSE AppendElement(prompt.v[b_i], Assembly)
    /\ UNCHANGED <<prompt, quote_style, b_model, max_prompt_tokens, token_count, trim,
                   b_result, b_attempts>>
    /\ UNCHANGED notBuild

\* messages after the loop, or for a str prompt
FinalMessages ==
    IF prompt.k = "str" THEN <<[role |-> "user", content |-> prompt.v]>>
    ELSE DepositMessages(Assembly, current_role).messages

\* the token count and the trimming of msgs
Counted(msgs, count, trimmed) ==
    /\ messages' = msgs
    /\ token_count' = count
    /\ IF ~OverBudget(count, max_prompt_tokens)
       THEN /\ b_pc' = "returned"
            /\ b_result' = msgs
            /\ UNCHANGED <<trim, b_err>>
       ELSE /\ trim' = [called |-> TRUE, trim_ratio |-> 1, max_tokens |-> max_prompt_tokens,
                       gave |-> trimmed]
            /\ IF IsNone(trimmed)
               THEN /\ b_pc' = "raised"
                    /\ b_err' = "ValueError: Failed to trim messages"
                    /\ UNCHANGED b_result
               ELSE /\ b_pc' = "returned"
                    /\ b_result' = trimmed.v
                    /\ UNCHANGED b_err

\* the rest of build_messages once the elements are consumed
BuildFinish ==
    /\ b_pc = "loop"
    /\ prompt.k = "str" \/ b_i > Len(prompt.v)
    /\ \E count \in TokenCounts : \E trimmed \in TrimOutcomes(FinalMessages) :
         Counted(FinalMessages, count, trimmed)
    /\ UNCHANGED <<prompt, quote_style, b_model, max_prompt_tokens, b_i, current_role,
                   current_message_elements, rendered, b_attempts>>
    /\ UNCHANGED notBuild

\* Prompt.run goes on to the retry loop with the messages build_messages returned
RunRetryLoop ==
    /\ b_pc = "returned"
    /\ b_pc' = "retrying"
    /\ b_attempts' = b_attempts + 1
    /\ UNCHANGED <<prompt, quote_style, b_model, max_prompt_tokens, b_i, messages,
                   current_role, current_message_elements, rendered, token_count, trim,
                   b_result, b_err>>
    /\ UNCHANGED notBuild

InitBuild == RunIdle /\ ParseIdle /\ EnvIdle /\ OllamaIdle /\ LitellmIdle /\ BuildInit

NextBuild ==
    \/ BuildElement
    \/ BuildFinish
    \/ RunRetryLoop

SpecBuild == InitBuild /\ [][NextBuild]_vars

\* ------------------------------------------------------------------ claims

\* C1: after the retry loop, the output and tool buffers Prompt.run uses (cost
\* estimation, finalizer input, final emission) are exactly what the successful
\* attempt accumulated, whatever the attempts delivered (zero events included).
C1_RetryRestart ==
    pc \in {"cost", "finalize", "done"} =>
        /\ output = acc.output
        /\ tool_responses = acc.tool_responses

\* C4: with a schema requested, Prompt.run yields a final output only if the
\* successful attempt's accumulated output (no tool buffers) decodes as JSON and
\* the candidate validates; the final data is a non-empty object.
C4_FinalizationNeverSilent ==
    (pc = "done" /\ ~IsNone(schema)) =>
        /\ ~(Len(acc.tool_responses) = 0 /\ JsonLoads(acc.output).k = "err")
        /\ final.data.k = "obj"
        /\ DOMAIN final.data.v # {}
        /\ SchemaValidates(final.data, schema)

\* C5: an attempt that ends with aiohttp.ClientError, openai.OpenAIError or
\* anthropic.AnthropicError is followed by a new attempt (the retry loop waits,
\* then starts one, whatever the number of attempts so far) and such an error
\* never leaves Prompt.run; an attempt that ends with any other error ends
\* Prompt.run with that error and no attempt is started after it.
C5_RetryPolicy ==
    /\ err \notin {"aiohttp.ClientError", "openai.OpenAIError", "anthropic.AnthropicError"}
    /\ attempt_err \in {"aiohttp.ClientError", "openai.OpenAIError", "anthropic.AnthropicError"}
         => (pc = "retry" /\ err = "none" /\ ENABLED StartAttempt)
    /\ attempt_err \notin {"none", "aiohttp.ClientError", "openai.OpenAIError",
                           "anthropic.AnthropicError"}
         => (pc = "failed" /\ err = attempt_err /\ ~ENABLED StartAttempt)

\* two attempts ended with retryable errors, a third one was started and ended
\* with an error outside the family
C5_Witness ==
    /\ attempts = 3
    /\ failures = 2
    /\ pc = "failed"
    /\ err = "asyncio.TimeoutError"

\* C10: the strategy of an attempt is anthropic for a `claude` prefix without
\* schema, ollama for an `ollama/` prefix without schema, litellm otherwise;
\* only that strategy produces events of the attempt and all attempts of the
\* invocation select the same one.
C10_Routing ==
    attempts > 0 =>
        /\ strategy =
             IF StartsWith(model, <<"c", "l", "a", "u", "d", "e">>) /\ schema = None
             THEN "anthropic"
             ELSE IF StartsWith(model, <<"o", "l", "l", "a", "m", "a", "/">>)
                     /\ schema = None
             THEN "ollama"
             ELSE "litellm"
        /\ producers \subseteq {strategy}
        /\ selected = {strategy}

\* a second attempt of a schema request for a claude model produced events
C10_Witness ==
    /\ attempts = 2
    /\ StartsWith(model, <<"c", "l", "a", "u", "d", "e">>)
    /\ ~IsNone(schema)
    /\ producers = {"litellm"}

\* C2: after each with statement over the context, both environment variables
\* have the state they had immediately before its enter, whatever secrets are
\* present, whatever was set before, and also when enter or the body raises.
C2_EnvironmentRestored ==
    (ctx_pc = "out" /\ pairs > 0) => environ = env_before

\* the decoded buffer of slot position i
BufferAt(i) == JsonLoads(p_tool_responses[i][2])

\* the merge of the buffers at positions S: every key of one of them, with the
\* value of the last position in S that holds it
MergeOf(S) ==
    [key \in UNION {DOMAIN BufferAt(i).v : i \in S} |->
        BufferAt(CHOOSE i \in S :
                    /\ key \in DOMAIN BufferAt(i).v
                    /\ \A j \in S : j > i => key \notin DOMAIN BufferAt(j).v).v[key]]

\* the call returned the candidate object cand, or None if cand lacks a field
ReturnedCandidate(cand) ==
    IF \A i \in 1..Len(p_schema.v) : p_schema.v[i] \in DOMAIN cand
    THEN p_result.k = "data" /\ p_result.v.k = "obj" /\ p_result.v.v = cand
    ELSE IsNone(p_result)

\* the call was made with tool buffers, each a JSON object or undecodable
C3_Case ==
    /\ p_pc = "returned"
    /\ Len(p_tool_responses) > 0
    /\ \A i \in 1..Len(p_tool_responses) : BufferAt(i).k \in {"obj", "err"}

\* C3 as stated: buffers that do not decode are skipped, the others are merged
\* in insertion order, and the call fails on decoding grounds only when no
\* buffer decodes.
C3_SkipsBadBuffers ==
    C3_Case =>
        IF \A i \in 1..Len(p_tool_responses) : BufferAt(i).k = "err"
        THEN IsNone(p_result)
        ELSE ReturnedCandidate(
                 MergeOf({i \in 1..Len(p_tool_responses) : BufferAt(i).k = "obj"}))

\* C3 amended: when every buffer decodes the candidate is the merge of all
\* buffers in slot insertion order, a later slot winning on a shared key; when
\* any buffer does not decode the call gives None, so finalization fails.
C3_FinalizerMerge ==
    C3_Case =>
        IF \E i \in 1..Len(p_tool_responses) : BufferAt(i).k = "err"
        THEN IsNone(p_result)
        ELSE ReturnedCandidate(MergeOf(1..Len(p_tool_responses)))

\* two slots share key a: slot 1, inserted first, holds 2 and slot 0 holds 1
C3_Witness ==
    /\ p_pc = "returned"
    /\ p_tool_responses = <<<<"1", TxtObjA2>>, <<"0", TxtObjA1>>>>
    /\ p_result.k = "data"
    /\ p_result.v.v[<<"a">>] = <<"1">>
\* the lines of text t: the pieces between its newlines
RECURSIVE LinesOf(_)
LinesOf(t) ==
    IF FindFrom(t, NL, 1) = 0 THEN <<t>>
    ELSE <<SubSeq(t, 1, FindFrom(t, NL, 1) - 1)>>
             \o LinesOf(SubSeq(t, FindFrom(t, NL, 1) + 1, Len(t)))

\* the deltas of the lines ls, decoded one line at a time
RECURSIVE LineDeltas(_)
LineDeltas(ls) ==
    IF ls = <<>> THEN <<>>
    ELSE (IF IsNone(ProcessCompletion(Head(ls))) THEN <<>>
          ELSE <<ProcessCompletion(Head(ls))>>) \o LineDeltas(Tail(ls))

\* the deltas of the whole body decoded at once and taken line by line
WholeBodyDeltas == LineDeltas(LinesOf(Utf8Decode(o_body, 1, <<>>).v))

\* C6: whatever the cut of the body into chunks, the adapter yields the deltas
\* of the whole body decoded line by line, in order (bodies whose deltas are all
\* strings, transport errors aside).
C6_ChunkSplitInvariance ==
    ( /\ o_pc \in {"done", "failed"}
      /\ o_err # "aiohttp.ClientError"
      /\ \A i \in 1..Len(WholeBodyDeltas) : WholeBodyDeltas[i].k = "str" )
    => (o_pc = "done" /\ o_events = WholeBodyDeltas)

\* the content of a line of shape {message: {content: non-empty string}}, None
\* for every other line
WellFormedContent(line) ==
    IF JsonLoads(line).k # "obj" THEN None
    ELSE IF Msg \notin DOMAIN JsonLoads(line).v THEN None
    ELSE IF JsonLoads(JsonLoads(line).v[Msg]).k # "obj" THEN None
    ELSE IF Content \notin DOMAIN JsonLoads(JsonLoads(line).v[Msg]).v THEN None
    ELSE IF JsonLoads(JsonLoads(JsonLoads(line).v[Msg]).v[Content]).k # "str" THEN None
    ELSE IF JsonLoads(JsonLoads(JsonLoads(line).v[Msg]).v[Content]).v = <<>> THEN None
    ELSE JsonLoads(JsonLoads(JsonLoads(line).v[Msg]).v[Content])

RECURSIVE WellFormedDeltas(_)
WellFormedDeltas(ls) ==
    IF ls = <<>> THEN <<>>
    ELSE (IF IsNone(WellFormedContent(Head(ls))) THEN <<>>
          ELSE <<WellFormedContent(Head(ls))>>) \o WellFormedDeltas(Tail(ls))

\* C7: a line that is empty, not JSON, or JSON of another shape than
\* {message: {content: non-empty string}} gives no event and no error in the
\* adapter or the accumulator, and the later well-formed lines still give their
\* deltas: an attempt that no transport or byte-decoding error ends is done, and
\* its events are the contents of the well-formed lines.
C7_MalformedLinesNeverFatal ==
    ( /\ o_pc \in {"done", "failed"}
      /\ o_err \notin {"aiohttp.ClientError", "UnicodeDecodeError"} )
    => ( /\ o_pc = "done"
         /\ o_events = WellFormedDeltas(LinesOf(Utf8Decode(o_body, 1, <<>>).v)) )

\* schema_kwargs holds the strict JSON-schema response_format and nothing else
HasResponseFormat ==
    /\ DOMAIN l_kwargs = {"response_format"}
    /\ l_kwargs.response_format.type = "json_schema"
    /\ l_kwargs.response_format.json_schema.schema = l_schema
    /\ l_kwargs.response_format.json_schema.strict

\* schema_kwargs holds the single forced tool "function" with the schema as
\* parameters, and every event has the index of its delta's tool call as slot
HasForcedTool ==
    /\ DOMAIN l_kwargs = {"tool_choice", "tools"}
    /\ l_kwargs.tool_choice = "required"
    /\ Len(l_kwargs.tools) = 1
    /\ l_kwargs.tools[1].type = "function"
    /\ l_kwargs.tools[1].function.name = "function"
    /\ l_kwargs.tools[1].function.parameters = l_schema
    /\ \A i \in 1..Len(l_events) :
         l_events[i].slot = l_received[i].tool_calls[1].index

\* C8 as stated: with a schema, response_format exactly for the identifiers
\* that start with gpt, the forced tool for every other one.
C8_ModeByPrefix ==
    (l_pc \in {"stream", "done", "failed"} /\ ~IsNone(l_schema)) =>
        IF StartsWith(l_model, <<"g", "p", "t">>) THEN HasResponseFormat
        ELSE HasForcedTool

\* C8 amended: with a schema, response_format exactly for the identifiers that
\* contain gpt anywhere; every other model is driven by the forced tool
\* "function" whose parameters equal the schema, and its events carry the
\* tool-call index as slot.
C8_ModeSelection ==
    (l_pc \in {"stream", "done", "failed"} /\ ~IsNone(l_schema)) =>
        IF Contains(l_model, <<"g", "p", "t">>) THEN HasResponseFormat
        ELSE HasForcedTool

\* an identifier that holds gpt after a provider prefix streamed under
\* response_format
C8_Witness ==
    /\ l_model = AzureModel
    /\ ~IsNone(l_schema)
    /\ "response_format" \in DOMAIN l_kwargs
    /\ Len(l_events) = 2

\* the payload of delta d that the mode in force reads: the arguments of the
\* first tool call under the forced tool, the content otherwise
ModePayload(d) ==
    IF ~IsNone(l_schema) /\ ~Contains(l_model, <<"g", "p", "t">>)
    THEN IF d.tool_calls = <<>> THEN None ELSE d.tool_calls[1].arguments
    ELSE d.content

\* delta d has neither content nor tool-call payload
BothAbsent(d) ==
    /\ IsNone(d.content)
    /\ (d.tool_calls = <<>> \/ IsNone(d.tool_calls[1].arguments))

\* the events are the deltas taken, less the one that ended the loop
OneEventPerDelta ==
    Len(l_events) = Len(l_received) - (IF l_end = "break" THEN 1 ELSE 0)

\* C9 as stated: one event per delta up to the first delta with both content
\* and tool-call payload absent, which ends the stream; a delta that carries
\* either payload never ends it.
C9_EndsWhenBothAbsent ==
    /\ OneEventPerDelta
    /\ \A i \in 1..Len(l_events) : ~BothAbsent(l_received[i])
    /\ l_end = "break" => BothAbsent(l_received[Len(l_received)])

\* C9 amended: one event per delta, in order, up to but excluding the first
\* delta whose payload for the mode in force is absent (the first tool call's
\* arguments under the forced tool, the content otherwise), and then the
\* adapter stops; a delta that carries only the other payload ends the stream.
C9_TerminationRule ==
    /\ OneEventPerDelta
    /\ \A i \in 1..Len(l_events) :
         /\ ~IsNone(ModePayload(l_received[i]))
         /\ l_events[i].delta = ModePayload(l_received[i])
    /\ l_end = "break" <=>
         (l_received # <<>> /\ IsNone(ModePayload(l_received[Len(l_received)])))
    /\ l_end = "break" => l_pc = "done"

\* under the forced tool two deltas gave events and a third, which holds
\* content and no tool call, ended the stream
C9_Witness ==
    /\ l_end = "break"
    /\ Len(l_events) = 2
    /\ Len(l_received) = 3
    /\ ~IsNone(l_received[3].content)
    /\ l_received[3].tool_calls = <<>>
\* the concatenation, in delivery order, of the deltas of the first k events of
\* evs that are tagged with slot (of all of them for slot "any")
RECURSIVE ConcatDeltas(_, _, _)
ConcatDeltas(evs, k, slot) ==
    IF k = 0 THEN <<>>
    ELSE ConcatDeltas(evs, k - 1, slot)
           \o (IF slot = "any" \/ evs[k].slot = slot THEN evs[k].delta.v ELSE <<>>)

\* C11: within one attempt iterate_invoke_llm emits exactly one state per
\* stream event; the output of the k-th state is the concatenation of the first
\* k deltas in delivery order, and each slot buffer is the concatenation of the
\* deltas tagged with that slot.
C11_StrictConcatenation ==
    /\ Len(emitted) = Len(delivered)
    /\ \A k \in 1..Len(emitted) :
         /\ emitted[k].output = ConcatDeltas(delivered, k, "any")
         /\ {emitted[k].tool_responses[i][1] : i \in 1..Len(emitted[k].tool_responses)}
              = {delivered[j].slot : j \in 1..k} \ {NoSlot}
         /\ \A i \in 1..Len(emitted[k].tool_responses) :
              emitted[k].tool_responses[i][2]
                = ConcatDeltas(delivered, k, emitted[k].tool_responses[i][1])
\* the decoded buffer, after the step, of the slot of the event the step delivers
StepBuffer == JsonLoads(SlotBuffer(acc'.tool_responses, delivered'[Len(delivered')].slot))

\* the step merges the top-level keys of object new into partial_data
StepMerges(new) ==
    /\ DOMAIN acc'.partial_data = DOMAIN acc.partial_data \cup DOMAIN new
    /\ \A key \in DOMAIN new : acc'.partial_data[key] = new[key]
    /\ \A key \in DOMAIN acc.partial_data \ DOMAIN new :
         acc'.partial_data[key] = acc.partial_data[key]

\* C12: an event with a tool slot whose whole buffer now decodes as a JSON
\* object merges that object's top-level keys into partial_data, overwriting
\* equal keys; an event whose buffer does not decode to keys, and every event
\* without a tool slot, leaves partial_data unchanged.
C12_PartialDataMerge ==
    [][ Len(delivered') = Len(delivered) + 1 =>
          IF /\ delivered'[Len(delivered')].slot # NoSlot
             /\ delivered'[Len(delivered')].delta.k = "str"
             /\ StepBuffer.k = "obj"
          THEN StepMerges(StepBuffer.v)
          ELSE acc'.partial_data = acc.partial_data ]_vars

\* slot 0 holds {"a":1}, slot 1 was completed after it with {"a":2}: the slot
\* merged later wins
C12_Witness ==
    /\ acc.tool_responses = <<<<"0", TxtObjA1>>, <<"1", TxtObjA2>>>>
    /\ Len(emitted) = 2
    /\ acc.partial_data = (<<"a">> :> <<"2">>)
\* data of an emitted output: a non-empty structured object, or absent
ObjectOrAbsent(data) == IsNone(data) \/ (data.k = "obj" /\ DOMAIN data.v # {})

\* C13: Prompt.run emits exactly one output per stream event of every attempt,
\* and after the successful attempt exactly one more, final output when a
\* schema was requested and none otherwise; in every emitted output result
\* equals response and data is a non-empty object or absent.
C13_OutputSequence ==
    /\ nOut = events
    /\ nOut > 0 => (lastOut.result = lastOut.response /\ ObjectOrAbsent(lastOut.data))
    /\ pc # "done" => final = NoOutput
    /\ pc = "done" =>
         IF IsNone(schema) THEN final = NoOutput
         ELSE /\ final # NoOutput
              /\ final.result = final.response
              /\ final.data.k = "obj"
              /\ DOMAIN final.data.v # {}
\* C14: whatever the outcome of the cost estimation (a price, an unknown
\* model, any other error), Prompt.run goes on to finalization as it does with
\* a known price; the estimated cost is a price or absent.
C14_CostNeverFails ==
    [][ pc = "cost" => (pc' = "finalize" /\ err' = err /\ cost' \in {"price", "None"}) ]_vars
\* C15: a token count within max_prompt_tokens returns the assembled list
\* unchanged without a call of the trimmer; a count over it calls the trimmer
\* with trim ratio 1, and when the trimmer gives None build_messages raises
\* before run's retry loop, which then starts no attempt.
C15_TokenBudget ==
    (trim.called \/ b_pc \in {"returned", "retrying"}) =>
        IF token_count <= max_prompt_tokens
        THEN ~trim.called /\ b_result = messages /\ b_err = "none"
        ELSE /\ trim.called
             /\ trim.trim_ratio = 1
             /\ trim.max_tokens = max_prompt_tokens
             /\ IF IsNone(trim.gave)
                THEN /\ b_pc = "raised"
                     /\ b_err = "ValueError: Failed to trim messages"
                     /\ b_attempts = 0
                     /\ ~ENABLED RunRetryLoop
                ELSE b_pc # "raised" /\ b_result = trim.gave.v

\* two messages were assembled, the count was over the budget and the trimmer
\* gave None
C15_Witness ==
    /\ b_pc = "raised"
    /\ Len(messages) = 2
    /\ token_count > max_prompt_tokens
    /\ trim.called
    /\ IsNone(trim.gave)

\* element e bears a role: a RoleElement, or a TextElement with a role
RoleBearing(e) == e.kind = "role" \/ (e.kind = "text" /\ e.role # "None")

\* the role segment of element i: the index of the last role-bearing element at
\* or before i, 0 before the first one
SegmentOf(i) ==
    IF \E j \in 1..i : RoleBearing(prompt.v[j])
    THEN CHOOSE j \in 1..i :
           /\ RoleBearing(prompt.v[j])
           /\ \A n \in (j + 1)..i : ~RoleBearing(prompt.v[n])
    ELSE 0

\* the segments that hold at least one element with a text
NonEmptySegments ==
    {SegmentOf(i) : i \in {j \in 1..Len(prompt.v) : prompt.v[j].kind # "role"}}

\* build_messages is over for a list of elements and the messages are assembled
Assembling == prompt.k = "list" /\ (trim.called \/ b_pc \in {"returned", "retrying"})

\* C16: for a sequence of RoleElements and TextElements the number of messages
\* assembled (before trimming) is the number of non-empty role segments, and
\* no message has empty content.
C16_MessageCount ==
    (Assembling /\ \A i \in 1..Len(prompt.v) : prompt.v[i].kind \in {"role", "text"}) =>
        /\ Len(messages) = Cardinality(NonEmptySegments)
        /\ \A m \in 1..Len(messages) : messages[m].content # <<>>

\* the m-th non-empty segment in element order
SegmentAt(m) ==
    CHOOSE g \in NonEmptySegments : Cardinality({t \in NonEmptySegments : t <= g}) = m

\* the renderings of the elements of segment g among the first i elements
RECURSIVE SegmentTexts(_, _)
SegmentTexts(g, i) ==
    IF i = 0 THEN <<>>
    ELSE SegmentTexts(g, i - 1)
           \o (IF SegmentOf(i) # g \/ prompt.v[i].kind = "role" THEN <<>>
               ELSE IF prompt.v[i].kind = "str" THEN <<prompt.v[i].text>>
               ELSE <<AsString(prompt.v[i], ResolvedQuoteStyle(quote_style, b_model)).v>>)

\* C17: elements are consumed in order starting under role user; a role-bearing
\* element closes the pending elements, if any, into one message under the
\* previous role and sets the new role: the messages are, in element order, one
\* per segment that holds elements, under the segment's role, with the
\* blank-line join of the renderings of the segment's elements as content.
C17_FlushRule ==
    Assembling =>
        /\ Len(messages) = Cardinality(NonEmptySegments)
        /\ \A m \in 1..Len(messages) :
             /\ messages[m].role = IF SegmentAt(m) = 0 THEN "user"
                                   ELSE prompt.v[SegmentAt(m)].role
             /\ messages[m].content = JoinBlank(SegmentTexts(SegmentAt(m), Len(prompt.v)))

\* a text and a str with no role between them are one user message, and the
\* text with a role that follows is a message of its own
C17_Witness ==
    /\ b_pc = "returned"
    /\ prompt.k = "list"
    /\ Len(prompt.v) = 3
    /\ Len(messages) = 2
    /\ messages[1] = [role |-> "user", content |-> <<"h", "i", NL, NL, "s">>]
    /\ messages[2] = [role |-> "user", content |-> <<"y", "o">>]

\* C18: build_messages never calls as_string on a RoleElement, and the error
\* 'RoleElement cannot be converted to a string.' does not leave it.
C18_RoleNeverRendered ==
    /\ b_err # "RuntimeError: RoleElement cannot be converted to a string."
    /\ prompt.k = "list" => \A i \in rendered : prompt.v[i].kind # "role"

\* a RoleElement between two rendered elements was consumed
C18_Witness ==
    /\ b_pc = "returned"
    /\ prompt.k = "list"
    /\ Len(prompt.v) = 3
    /\ prompt.v[2].kind = "role"
    /\ rendered = {1, 3}
\* C19: when an attempt of _invoke_litellm is over (its stream was exhausted, it
\* broke at the end of the turn, it raised a retryable or a fatal error, or
\* its consumer abandoned it), the OpenAI client it created is closed and the
\* credential context it entered is exited.
C19_ReleaseOnEveryExit ==
    l_pc \in {"done", "failed", "abandoned"} => (l_client # "open" /\ l_ctx = "out")
\* C20: when a second invocation enters the credential context while the first
\* is inside it, the step by which the first of the two leaves keeps what is in
\* the environment (the injected values stay in place for the one still
\* inside), and the step by which the last one leaves gives
\* ANTHROPIC_API_KEY and GOOGLE_APPLICATION_CREDENTIALS the values they had
\* before the first enter.
C20_OverlapRestores ==
    [][ /\ ctx_last' = "inner exited" => environ' = environ
        /\ (ctx_last = "inner exited" /\ ctx_pc' = "out") => environ' = env_before ]_vars
\* the invocation runs the generic adapter with a schema and the forced tool
ToolCallingMode ==
    /\ InvokeLlm(model, schema) = "litellm"
    /\ ~IsNone(schema)
    /\ ~Contains(model, <<"g", "p", "t">>)

\* C21: outside tool-calling mode (native Anthropic, native Ollama, the generic
\* adapter without a schema or with response_format) no event has a tool slot,
\* so the tool buffers stay empty and every incremental output has data None;
\* in tool-calling mode every event carries a tool slot.
C21_SlotsOnlyInToolMode ==
    IF ToolCallingMode
    THEN \A k \in 1..Len(delivered) : delivered[k].slot # NoSlot
    ELSE /\ \A k \in 1..Len(delivered) : delivered[k].slot = NoSlot
         /\ \A k \in 1..Len(emitted) :
              emitted[k].tool_responses = <<>> /\ emitted[k].partial_data = <<>>
         /\ tool_responses = <<>>
         /\ nOut > 0 => IsNone(lastOut.data)

\* response_format mode: the content is a whole JSON object and the output
\* still has no data
C21_Witness ==
    /\ model = GptModel
    /\ ~IsNone(schema)
    /\ Len(delivered) = 1
    /\ nOut = 1
    /\ lastOut.result = TxtObjA1
    /\ IsNone(lastOut.data)
\* C22: the validation of the structured output is reached only from the cost
\* step that follows an attempt that ended without error; it is a single step
\* that ends the invocation (done or failed) and starts no attempt; without a
\* schema it validates nothing and emits no final output; and once the
\* invocation is over nothing more happens.
C22_FinalizationOnce ==
    [][ /\ (pc' = "finalize" /\ pc # "finalize") =>
              (pc = "cost" /\ attempt_err' = "none" /\ attempts' >= 1)
        /\ pc = "finalize" =>
              (pc' \in {"done", "failed"} /\ attempts' = attempts /\ events' = events)
        /\ (pc = "finalize" /\ IsNone(schema)) =>
              (pc' = "done" /\ final' = final /\ err' = err)
        /\ pc \in {"done", "failed"} =>
              (pc' = pc /\ attempts' = attempts /\ final' = final /\ err' = err) ]_vars

\* after a retried attempt and a successful one the validation failed, and the
\* invocation is over with two attempts
C22_Witness ==
    /\ pc = "failed"
    /\ err = FinalizationError
    /\ attempts = 2
    /\ failures = 1

\* C23 as stated: the validation of the structured output runs before the cost
\* estimation: an invocation whose validation failed has made no estimate, and
\* once the estimate is made with a schema requested no validation is still
\* to come.
C23_FinalizeBeforeCost ==
    /\ err = FinalizationError => cost = "unset"
    /\ (cost # "unset" /\ ~IsNone(schema)) => pc # "finalize"

\* C23 amended: the cost estimation runs first, then the validation, then the
\* final output: the validation is reached, and a final output or a
\* validation error exists, only with the estimate made; while the estimate
\* is pending there is no final output; and an invocation whose estimate
\* raised validates nothing.
C23_CostBeforeFinalize ==
    /\ (pc = "finalize" \/ final # NoOutput \/ err = FinalizationError) =>
           cost \in {"price", "None"}
    /\ pc = "cost" => (final = NoOutput /\ err = "none")
    /\ (pc = "failed" /\ cost = "unset") => (final = NoOutput /\ err # FinalizationError)

\* the validation failed after the estimate was made
C23_Witness ==
    /\ pc = "failed"
    /\ err = FinalizationError
    /\ cost = "price"
    /\ nOut > 0
\* C24 as stated: a delta whose payload is the empty string ends the stream as
\* an absent payload does: it is the last delta taken, the loop broke on it and
\* no event was yielded for it.
C24_EmptyEndsStream ==
    \A i \in 1..Len(l_received) :
        ModePayload(l_received[i]) = Str(<<>>) =>
            (i = Len(l_received) /\ l_end = "break" /\ Len(l_events) = i - 1)

\* C24 amended: a delta whose payload is the empty string is yielded as an event
\* with the empty string and does not end the stream; the loop breaks only on
\* a payload that is None.
C24_EmptyIsYielded ==
    /\ \A i \in 1..Len(l_received) :
         ModePayload(l_received[i]) = Str(<<>>) =>
             /\ i <= Len(l_events)
             /\ l_events[i].delta = Str(<<>>)
             /\ i = Len(l_received) => l_end # "break"
    /\ l_end = "break" => IsNone(ModePayload(l_received[Len(l_received)]))

\* an empty content was yielded and a later delta was yielded after it
C24_Witness ==
    /\ Len(l_received) = 3
    /\ l_received[2].content = Str(<<>>)
    /\ Len(l_events) = 3
    /\ l_events[2].delta = Str(<<>>)
    /\ l_events[3].delta = Str(TxtNo)
\* C25: with finite streams, finitely many retryable failures and a fair
\* scheduler, Prompt.run ends, with its final success or with an error that
\* left it; and it ends with success only after an attempt that ended without
\* error.
C25_EventualCompletion ==
    /\ <>(pc \in {"done", "failed"})
    /\ [](pc = "failed" => err # "none")
    /\ [](pc = "done" => (err = "none" /\ attempt_err = "none" /\ attempts >= 1))

\* the invocation succeeded on its third attempt
C25_Witness ==
    /\ pc = "done"
    /\ attempts = 3
    /\ failures = 2
    /\ attempt_err = "none"
\* C26: when a single attempt in tool-calling mode has succeeded with every slot
\* buffer a complete JSON object, the data of the final output is the partial
\* data of the last incremental output.
C26_StreamedEqualsFinal ==
    ( /\ pc = "done"
      /\ ToolCallingMode
      /\ attempts = 1
      /\ nOut > 0
      /\ \A i \in 1..Len(tool_responses) : JsonLoads(tool_responses[i][2]).k = "obj" )
    => final.data = lastOut.data
\* C27: for the events of an attempt that all carry a tool slot and a text,
\* whatever the slot buffers decode to, iterate_invoke_llm has emitted one state
\* per event delivered and the attempt has not ended with an error of the
\* accumulator.
C27_AccumulatorNeverFails ==
    (\A k \in 1..Len(delivered) :
        delivered[k].slot # NoSlot /\ delivered[k].delta.k = "str")
    => /\ Len(emitted) = Len(delivered)
       /\ attempt_err \notin {"TypeError", "ValueError"}
       /\ err \notin {"TypeError", "ValueError"}
====
